---- MODULE Spec2Model ----
(***************************************************************************)
(* Model of scripts/storyboard_generator.py: the scene detector            *)
(* (extract_key_frames), the caption aligner (process_vtt) and the         *)
(* pipeline that chains them (main_async).                                 *)
(*                                                                         *)
(* Units.  Times are in tenths of a second (1.0 s = 10).  A frame is a     *)
(* record [px, hue]: px is the tuple of pixel intensities at the analysis  *)
(* resolution, hue is the colour information the grey conversion drops.    *)
(* A ratio is kept as a pair <<numerator, denominator>>.                   *)
(***************************************************************************)
EXTENDS Integers, Sequences, FiniteSets, TLC

VARIABLES
    pc,              \* position of main_async / the running function
    threshold,       \* args.threshold, a ratio <<num, den>>
    cap_opened,      \* cap.isOpened(): "unknown" before the open, then "yes"/"no"
    cap_pos,         \* CAP_PROP_POS_MSEC of the capture, in tenths of a second
    files,           \* output_dir: the names of the files cv2.imwrite created
    scenes,          \* the scene list
    prev_frame_gray, \* the reference sample
    curr_frame_gray, \* the analysis sample of the last analysed frame
    frame_count,     \* frames read after the first one
    changed_pixels,  \* cv2.countNonZero(diff_thresh) of the last analysed frame
    timestamp,       \* timestamp of the last analysed frame
    vtt_parsed,      \* webvtt.read: "unknown" before the read, then "yes"/"no"
    captions,        \* the cues webvtt.read returned
    ci,              \* index of the cue being assigned (outer loop of process_vtt)
    si,              \* scene cursor (inner loop of process_vtt)
    html             \* whether storyboard.html has been written

vars == <<pc, threshold, cap_opened, cap_pos, files, scenes, prev_frame_gray,
          curr_frame_gray, frame_count, changed_pixels, timestamp, vtt_parsed,
          vtt_parsed, captions, ci, si, html>>

(***************************************************************************)
(* Bounds of the model.                                                    *)
(***************************************************************************)
\* frames the stream yields after the first one, at most
MaxFrames == 6
\* cues in the caption file, at most
MaxCaptions == 2

\* timestamp increments between two consecutive decoded frames
Steps == {2, 3, 5, 10}
\* start times of the cues (caption.start_in_seconds), in tenths of a second
CueTimes == {0, 12, 13, 40}
\* values of --threshold
Thresholds == {<<1, 4>>, <<1, 2>>}
\* pictures the stream can show: a slide filling up, and a recoloured blank
Pictures ==
    { [px |-> <<0, 0>>,   hue |-> 0],
      [px |-> <<0, 0>>,   hue |-> 1],
      [px |-> <<30, 0>>,  hue |-> 0],
      [px |-> <<60, 0>>,  hue |-> 0],
      [px |-> <<60, 60>>, hue |-> 0] }

(***************************************************************************)
(* Constants of the program.                                               *)
(***************************************************************************)
\* min_duration = 1.0 (seconds), in tenths of a second
min_duration == 10
\* skip_frames = 2
skip_frames == 2
\* cv2.threshold(diff, 30, 255, THRESH_BINARY): the intensity delta
pixel_delta == 30
\* resize_dim: the analysis resolution (width, height), scaled down
resize_dim == <<2, 1>>
\* total_pixels = resize_dim[0] * resize_dim[1]
total_pixels == resize_dim[1] * resize_dim[2]

\* values of locals that are not bound (before assignment, after return)
NoGray == <<>>
NoNum == 0 - 1

(***************************************************************************)
(* Pure helpers.                                                           *)
(***************************************************************************)
\* cv2.cvtColor(cv2.resize(frame, resize_dim), COLOR_BGR2GRAY): keeps the
\* intensities, drops the colour
ToGray(frame) == frame.px

Abs(x) == IF x < 0 THEN -x ELSE x

\* countNonZero(threshold(absdiff(a, b), 30, 255, THRESH_BINARY)): the pixels
\* whose absolute difference is strictly above the delta
CountChanged(a, b) ==
    Cardinality({i \in 1..total_pixels : Abs(a[i] - b[i]) > pixel_delta})

\* the ratio test with >= in place of >
RatioAtLeast(changed, th) == changed * th[2] >= th[1] * total_pixels

\* change_ratio > threshold, with change_ratio = changed / total_pixels
RatioAbove(changed, th) == changed * th[2] > th[1] * total_pixels

\* the debounce test measured from the start of the video instead of from
\* the last boundary
DebouncedFromStart(ts, last) == ts > min_duration

\* the debounce test with half the window
DebouncedHalfWindow(ts, last) == ts - last > min_duration \div 2

\* timestamp - scenes[-1]['time'] > min_duration
Debounced(ts, last) == ts - last > min_duration

\* the test of line 83
Triggers(changed, th, ts, last) == RatioAbove(changed, th) /\ Debounced(ts, last)

\* the reference following every analysed sample (adjacent-frame differencing)
NextReferenceAdjacent(triggered, prev, curr) == curr

\* lines 83-90: the reference sample after a sample was analysed: the sample
\* itself when it started a scene, the old reference otherwise
NextReference(triggered, prev, curr) == IF triggered THEN curr ELSE prev

\* int(timestamp) for a timestamp in tenths of a second
IntSeconds(ts) == ts \div 10

RECURSIVE Digits(_)
Digits(n) == IF n < 10 THEN <<n>> ELSE Append(Digits(n \div 10), n % 10)

RECURSIVE PadLeft(_, _)
PadLeft(ds, w) == IF Len(ds) >= w THEN ds ELSE PadLeft(<<0>> \o ds, w)

\* f"frame_{n:04d}.jpg": the digits of n, zero-padded to at least 4
FrameName(n) == PadLeft(Digits(n), 4)

\* a new scene dict {'time': t, 'img': name, 'captions': []}; the keys
\* 'end_time' and 'audio' are absent
NewScene(t, name) ==
    [time |-> t, img |-> [dir |-> "", name |-> name], captions |-> <<>>,
     end_time |-> [k |-> "absent", v |-> 0], audio |-> [k |-> "absent", v |-> 0]]

\* cv2.imwrite(path, frame): creates the file, or overwrites the one of that name
ImWrite(fs, name) == fs \cup {name}

\* shutil.rmtree(output_dir); os.makedirs(output_dir)
EmptyDir == {}

Init ==
    /\ pc = "extract"
    /\ threshold \in Thresholds
    /\ cap_opened = "unknown"
    /\ cap_pos = 0
    /\ files = EmptyDir
    /\ scenes = <<>>
    /\ prev_frame_gray = NoGray
    /\ curr_frame_gray = NoGray
    /\ frame_count = 0
    /\ changed_pixels = NoNum
    /\ timestamp = NoNum
    /\ vtt_parsed = "unknown"
    /\ captions = <<>>
    /\ ci = 0
    /\ si = 0
    /\ html = FALSE

(***************************************************************************)
(* extract_key_frames                                                      *)
(***************************************************************************)
\* lines 23-30: the video cannot be opened: print an error, return []
ExtractNotOpened ==
    /\ pc = "extract"
    /\ cap_opened' = "no"
    /\ files' = EmptyDir
    /\ scenes' = <<>>
    /\ pc' = "process_vtt"
    /\ UNCHANGED <<threshold, cap_pos, prev_frame_gray, curr_frame_gray, frame_count,
                   changed_pixels, timestamp, vtt_parsed, captions, ci, si, html>>

\* lines 23-41: the video opens but yields no frame: return []
ExtractNoFrame ==
    /\ pc = "extract"
    /\ cap_opened' = "yes"
    /\ files' = EmptyDir
    /\ scenes' = <<>>
    /\ pc' = "process_vtt"
    /\ UNCHANGED <<threshold, cap_pos, prev_frame_gray, curr_frame_gray, frame_count,
                   changed_pixels, timestamp, vtt_parsed, captions, ci, si, html>>

\* lines 23-57: the first frame is saved as frame_0000.jpg and becomes scene 0
\* and the reference sample
ExtractFirstFrame ==
    /\ pc = "extract"
    /\ \E frame \in Pictures :
        /\ cap_opened' = "yes"
        /\ files' = ImWrite(EmptyDir, FrameName(0))
        /\ scenes' = <<NewScene(0, FrameName(0))>>
        /\ prev_frame_gray' = ToGray(frame)
    /\ frame_count' = 0
    /\ pc' = "loop"
    /\ UNCHANGED <<threshold, cap_pos, curr_frame_gray, changed_pixels, timestamp,
                   vtt_parsed, captions, ci, si, html>>

\* lines 59-62, 92-93: cap.read() fails: leave the loop, release, return scenes
ExtractEnd ==
    /\ pc = "loop"
    /\ pc' = "process_vtt"
    /\ prev_frame_gray' = NoGray
    /\ curr_frame_gray' = NoGray
    /\ frame_count' = 0
    /\ changed_pixels' = NoNum
    /\ timestamp' = NoNum
    /\ cap_pos' = 0
    /\ UNCHANGED <<threshold, cap_opened, files, scenes, vtt_parsed, captions, ci, si, html>>

\* lines 59-66: a frame is read and skipped (frame_count % skip_frames != 0)
ExtractSkip ==
    /\ pc = "loop"
    /\ frame_count < MaxFrames
    /\ (frame_count + 1) % skip_frames # 0
    /\ \E step \in Steps : cap_pos' = cap_pos + step
    /\ frame_count' = frame_count + 1
    /\ UNCHANGED <<pc, threshold, cap_opened, files, scenes, prev_frame_gray,
                   curr_frame_gray, changed_pixels, timestamp, vtt_parsed, captions, ci, si, html>>

\* lines 59-90: a frame is read and analysed against the reference sample
ExtractAnalyse ==
    /\ pc = "loop"
    /\ frame_count < MaxFrames
    /\ (frame_count + 1) % skip_frames = 0
    /\ frame_count' = frame_count + 1
    /\ \E step \in Steps, frame \in Pictures :
        LET gray == ToGray(frame)
            changed == CountChanged(prev_frame_gray, gray)
            ts == cap_pos + step
            name == FrameName(IntSeconds(ts))
            trig == Triggers(changed, threshold, ts, scenes[Len(scenes)].time)
        IN  /\ cap_pos' = ts
            /\ curr_frame_gray' = gray
            /\ changed_pixels' = changed
            /\ timestamp' = ts
            /\ IF trig
               THEN /\ files' = ImWrite(files, name)
                    /\ scenes' = Append(scenes, NewScene(ts, name))
               ELSE UNCHANGED <<files, scenes>>
            /\ prev_frame_gray' = NextReference(trig, prev_frame_gray, gray)
    /\ UNCHANGED <<pc, threshold, cap_opened, vtt_parsed, captions, ci, si, html>>

(***************************************************************************)
(* process_vtt                                                             *)
(***************************************************************************)
\* the cue sequences a caption file can hold: cue i carries the i-th text
CueSeqs ==
    UNION { { [i \in 1..n |-> [start |-> f[i], text |-> i]] : f \in [1..n -> CueTimes] }
            : n \in 0..MaxCaptions }

\* lines 109-111 on a non-empty list: scene i ends where scene i+1 starts,
\* the last one at infinity
SetEndTimes(scs) ==
    [i \in 1..Len(scs) |->
        [scs[i] EXCEPT !.end_time =
            IF i < Len(scs) THEN [k |-> "num", v |-> scs[i + 1].time]
                            ELSE [k |-> "inf", v |-> 0]]]

\* start_seconds < scene['end_time']
BeforeEnd(t, e) == e.k = "inf" \/ (e.k = "num" /\ t < e.v)

\* the interval test with the end time included
InSceneClosedEnd(scene, t) ==
    scene.time <= t /\ (scene.end_time.k = "inf" \/ t <= scene.end_time.v)

\* line 119: scene['time'] <= start_seconds < scene['end_time']
InScene(scene, t) == scene.time <= t /\ BeforeEnd(t, scene.end_time)

\* the scan resuming at the scene of the previous cue (two-pointer merge)
ScanStartAtCursor == IF si = 0 THEN 1 ELSE si

\* line 118: the index at which the scan of the scenes starts for every cue
ScanStart == 1

\* the except branch re-raising instead of returning
AfterReadErrorRaises == "crashed"

\* lines 104-106: where main_async goes on after the except branch returned
AfterReadError == "main_img"

\* lines 102-106: webvtt.read raises: print the error and return scenes as is
VttReadFails ==
    /\ pc = "process_vtt"
    /\ vtt_parsed' = "no"
    /\ pc' = AfterReadError
    /\ UNCHANGED <<threshold, cap_opened, cap_pos, files, scenes, prev_frame_gray,
                   curr_frame_gray, frame_count, changed_pixels, timestamp, captions,
                   ci, si, html>>

\* lines 102-111: the file is read and the end times are set; on an empty
\* list scenes[-1] raises IndexError, which no caller catches
VttRead ==
    /\ pc = "process_vtt"
    /\ vtt_parsed' = "yes"
    /\ \E cs \in CueSeqs : captions' = cs
    /\ IF Len(scenes) = 0
       THEN /\ pc' = "crashed"
            /\ UNCHANGED <<scenes, ci>>
       ELSE /\ scenes' = SetEndTimes(scenes)
            /\ ci' = 1
            /\ pc' = "vtt_cue"
    /\ UNCHANGED <<threshold, cap_opened, cap_pos, files, prev_frame_gray,
                   curr_frame_gray, frame_count, changed_pixels, timestamp, si, html>>

\* lines 113-118: the next cue is taken and the scan of the scenes starts
VttNextCue ==
    /\ pc = "vtt_cue"
    /\ ci <= Len(captions)
    /\ si' = ScanStart
    /\ pc' = "vtt_scan"
    /\ UNCHANGED <<threshold, cap_opened, cap_pos, files, scenes, prev_frame_gray,
                   curr_frame_gray, frame_count, changed_pixels, timestamp, vtt_parsed,
                   captions, ci, html>>

\* lines 119-121: the scene under the cursor holds the cue: append and break
VttScanMatch ==
    /\ pc = "vtt_scan"
    /\ InScene(scenes[si], captions[ci].start)
    /\ scenes' = [scenes EXCEPT ![si].captions = Append(@, captions[ci].text)]
    /\ ci' = ci + 1
    /\ pc' = "vtt_cue"
    /\ UNCHANGED <<threshold, cap_opened, cap_pos, files, prev_frame_gray,
                   curr_frame_gray, frame_count, changed_pixels, timestamp, vtt_parsed,
                   captions, si, html>>

\* lines 118-119: the scene under the cursor does not hold the cue: move to
\* the next scene, or to the next cue when the scenes are exhausted
VttScanMiss ==
    /\ pc = "vtt_scan"
    /\ ~InScene(scenes[si], captions[ci].start)
    /\ IF si < Len(scenes)
       THEN /\ si' = si + 1
            /\ UNCHANGED <<pc, ci>>
       ELSE /\ ci' = ci + 1
            /\ pc' = "vtt_cue"
            /\ UNCHANGED si
    /\ UNCHANGED <<threshold, cap_opened, cap_pos, files, scenes, prev_frame_gray,
                   curr_frame_gray, frame_count, changed_pixels, timestamp, vtt_parsed,
                   captions, html>>

\* lines 113, 123: no cue is left: return scenes
VttReturn ==
    /\ pc = "vtt_cue"
    /\ ci > Len(captions)
    /\ ci' = 0
    /\ si' = 0
    /\ pc' = "main_img"
    /\ UNCHANGED <<threshold, cap_opened, cap_pos, files, scenes, prev_frame_gray,
                   curr_frame_gray, frame_count, changed_pixels, timestamp, vtt_parsed,
                   captions, html>>

(***************************************************************************)
(* main_async after process_vtt, generate_audio_for_scenes, generate_html  *)
(***************************************************************************)
\* lines 238-239: every image path is made relative to the HTML file
MainImgPaths ==
    /\ pc = "main_img"
    /\ scenes' = [i \in 1..Len(scenes) |->
                    [scenes[i] EXCEPT !.img.dir = "assets/frames"]]
    /\ pc' = "audio"
    /\ UNCHANGED <<threshold, cap_opened, cap_pos, files, prev_frame_gray,
                   curr_frame_gray, frame_count, changed_pixels, timestamp, vtt_parsed,
                   captions, ci, si, html>>

\* lines 135-151: a scene without caption text gets audio None, scene i with
\* text gets assets/audio/audio_<i>.mp3 (i counted from 0)
SceneAudio(scs, i) ==
    IF scs[i].captions = <<>> THEN [k |-> "None", v |-> 0]
                              ELSE [k |-> "path", v |-> i - 1]

\* lines 125-154: generate_audio_for_scenes
GenerateAudio ==
    /\ pc = "audio"
    /\ scenes' = [i \in 1..Len(scenes) |->
                    [scenes[i] EXCEPT !.audio = SceneAudio(scenes, i)]]
    /\ pc' = "html"
    /\ UNCHANGED <<threshold, cap_opened, cap_pos, files, prev_frame_gray,
                   curr_frame_gray, frame_count, changed_pixels, timestamp, vtt_parsed,
                   captions, ci, si, html>>

\* lines 156-200, 246-247: generate_html writes storyboard.html
GenerateHtml ==
    /\ pc = "html"
    /\ html' = TRUE
    /\ pc' = "done"
    /\ UNCHANGED <<threshold, cap_opened, cap_pos, files, scenes, prev_frame_gray,
                   curr_frame_gray, frame_count, changed_pixels, timestamp, vtt_parsed,
                   captions, ci, si>>

Next ==
    \/ ExtractNotOpened
    \/ ExtractNoFrame
    \/ ExtractFirstFrame
    \/ ExtractEnd
    \/ ExtractSkip
    \/ ExtractAnalyse
    \/ VttReadFails
    \/ VttRead
    \/ VttNextCue
    \/ VttScanMatch
    \/ VttScanMiss
    \/ VttReturn
    \/ MainImgPaths
    \/ GenerateAudio
    \/ GenerateHtml

Spec == Init /\ [][Next]_vars

(***************************************************************************)
(* Vocabulary of the properties.                                           *)
(***************************************************************************)
\* process_vtt has returned to main_async
AlignmentReturned == pc \in {"main_img", "audio", "html", "done"}

\* the detector loop took a step that analysed a sample
AnalysedStep ==
    /\ pc = "loop" /\ pc' = "loop"
    /\ frame_count' = frame_count + 1
    /\ frame_count' % 2 = 0

\* the step emitted a scene boundary at the sample it analysed
EmittedBoundary ==
    /\ Len(scenes') = Len(scenes) + 1
    /\ SubSeq(scenes', 1, Len(scenes)) = scenes
    /\ scenes'[Len(scenes')].time = timestamp'

\* changeRatio > threshold for a count of changed pixels out of two
AboveThreshold(changed) == changed * threshold[2] > threshold[1] * 2

\* the cue sequence is sorted by start time
SortedCues == \A i, j \in 1..Len(captions) : i < j => captions[i].start <= captions[j].start

\* the texts of the cues of cs whose start lies in scene sc, in the order of cs
TextsWithin(cs, sc) ==
    LET Hit(c) == sc.time <= c.start /\ (sc.end_time.k = "inf" \/ c.start < sc.end_time.v)
        hits == SelectSeq(cs, Hit)
    IN  [k \in 1..Len(hits) |-> hits[k].text]

\* the scenes whose interval holds the start of cue c
ScenesHolding(c) ==
    {i \in 1..Len(scenes) :
        /\ scenes[i].time <= c.start
        /\ scenes[i].end_time.k \in {"inf", "num"}
        /\ (scenes[i].end_time.k = "inf" \/ c.start < scenes[i].end_time.v)}

(***************************************************************************)
(* C1: once extract_key_frames and process_vtt have run, the scene list    *)
(* is strictly increasing in start time, starts at time 0 and is           *)
(* contiguous: scene i ends where scene i+1 starts, the last at infinity.  *)
(***************************************************************************)
C1_ContiguousTimeline ==
    AlignmentReturned =>
        /\ \A i \in 1..Len(scenes) - 1 : scenes[i].time < scenes[i + 1].time
        /\ (Len(scenes) > 0 => scenes[1].time = 0)
        /\ \A i \in 1..Len(scenes) - 1 :
              scenes[i].end_time = [k |-> "num", v |-> scenes[i + 1].time]
        /\ (Len(scenes) > 0 => scenes[Len(scenes)].end_time.k = "inf")

(***************************************************************************)
(* C2: when process_vtt has assigned the cues of a parsed caption file,    *)
(* every cue lies in exactly one scene interval, and every scene's caption *)
(* list is the texts of the cues starting in its interval, in input order. *)
(***************************************************************************)
C2_PartitionInOrder ==
    (AlignmentReturned /\ vtt_parsed = "yes") =>
        /\ \A j \in 1..Len(captions) : Cardinality(ScenesHolding(captions[j])) = 1
        /\ \A i \in 1..Len(scenes) : scenes[i].captions = TextsWithin(captions, scenes[i])

\* two cues with the same start time on a scene boundary, and a cue before it
C2_Witness ==
    /\ AlignmentReturned /\ vtt_parsed = "yes"
    /\ Len(scenes) >= 2 /\ Len(captions) = 2
    /\ captions[1].start = captions[2].start
    /\ captions[1].start = scenes[2].time
    /\ scenes[2].captions = <<1, 2>>

(***************************************************************************)
(* C3: an analysed sample starts a scene if and only if its change ratio   *)
(* is strictly above the threshold and it lies strictly more than 1.0 s    *)
(* after the last boundary; a ratio equal to the threshold never does, and *)
(* a skipped frame never does.                                             *)
(***************************************************************************)
C3_TriggerIff ==
    [][ /\ AnalysedStep =>
            /\ EmittedBoundary <=>
                  /\ AboveThreshold(changed_pixels')
                  /\ timestamp' - scenes[Len(scenes)].time > 10
            /\ EmittedBoundary \/ scenes' = scenes
            /\ changed_pixels' * threshold[2] = threshold[1] * 2 => scenes' = scenes
        /\ (pc = "loop" /\ pc' = "loop" /\ ~AnalysedStep) => scenes' = scenes
      ]_vars

\* a sample with a ratio equal to the threshold, past the debounce window
C3_Witness ==
    /\ pc = "loop"
    /\ changed_pixels * threshold[2] = threshold[1] * 2
    /\ timestamp - scenes[Len(scenes)].time > 10

(***************************************************************************)
(* C4: a change above the threshold that reaches the detector 0.5 s after  *)
(* the boundary of an earlier change emits no boundary; the same change    *)
(* 1.5 s after it emits a second boundary.                                 *)
(***************************************************************************)
C4_Debounce ==
    [][ (AnalysedStep /\ Len(scenes) >= 2 /\ AboveThreshold(changed_pixels')) =>
            /\ timestamp' - scenes[Len(scenes)].time = 5 => scenes' = scenes
            /\ timestamp' - scenes[Len(scenes)].time = 15 => EmittedBoundary
      ]_vars

\* the second change, 0.5 s after the boundary of the first, was suppressed
C4_Witness ==
    /\ pc = "loop"
    /\ Len(scenes) = 2
    /\ timestamp - scenes[2].time = 5
    /\ AboveThreshold(changed_pixels)

(***************************************************************************)
(* C5: an empty frame stream yields an empty scene list, and process_vtt   *)
(* on that list completes without error and returns the empty list.        *)
(***************************************************************************)
C5_EmptyInputIsNoOp ==
    (cap_opened = "yes" /\ pc # "extract" /\ Len(scenes) = 0) => pc # "crashed"

(***************************************************************************)
(* C6: when the video cannot be opened the run is aborted: no later stage  *)
(* (caption alignment, audio, HTML) runs.                                  *)
(***************************************************************************)
C6_UnopenedVideoAborts ==
    cap_opened = "no" => (~AlignmentReturned /\ pc # "crashed" /\ ~html)

(***************************************************************************)
(* C7: when the caption file cannot be parsed, process_vtt returns the     *)
(* scenes unchanged with every caption list empty, and the run goes on to  *)
(* the audio and HTML stages without aborting.                             *)
(***************************************************************************)
C7_ParseFailureRecoverable ==
    [][ /\ (pc = "process_vtt" /\ vtt_parsed' = "no") =>
              (scenes' = scenes /\ pc' = "main_img")
        /\ vtt_parsed' = "no" =>
              /\ pc' \in {"main_img", "audio", "html", "done"}
              /\ Len(scenes') = Len(scenes)
              /\ \A i \in 1..Len(scenes') :
                    /\ scenes'[i].time = scenes[i].time
                    /\ scenes'[i].captions = <<>>
              /\ (pc = "audio" => pc' = "html")
              /\ (pc = "html" => (pc' = "done" /\ html'))
      ]_vars

\* the storyboard was written for scenes whose caption file did not parse
C7_Witness ==
    /\ vtt_parsed = "no" /\ pc = "done" /\ html
    /\ Len(scenes) >= 2
    /\ \A i \in 1..Len(scenes) : scenes[i].audio.k = "None"

(***************************************************************************)
(* C8: the reference sample is the sample of the last emitted boundary:    *)
(* a sample that starts a scene becomes the reference, any other leaves it *)
(* unchanged, and the change of a sample is counted against the reference, *)
(* so drift away from the last boundary triggers once it is large enough.  *)
(***************************************************************************)
C8_ReferenceIsLastBoundary ==
    [][ /\ AnalysedStep =>
            LET drift == Cardinality({i \in 1..2 :
                            \/ prev_frame_gray[i] - curr_frame_gray'[i] > 30
                            \/ curr_frame_gray'[i] - prev_frame_gray[i] > 30})
            IN  /\ changed_pixels' = drift
                /\ EmittedBoundary <=>
                      (AboveThreshold(drift) /\ timestamp' - scenes[Len(scenes)].time > 10)
                /\ EmittedBoundary => prev_frame_gray' = curr_frame_gray'
                /\ ~EmittedBoundary => prev_frame_gray' = prev_frame_gray
        /\ (pc = "loop" /\ pc' = "loop" /\ ~AnalysedStep) =>
              prev_frame_gray' = prev_frame_gray
      ]_vars

\* a sample past the debounce window differs from the reference by no more
\* than the threshold and has left the reference as it was
C8_Witness ==
    /\ pc = "loop" /\ Len(scenes) = 1
    /\ timestamp > 10
    /\ changed_pixels = 1 /\ ~AboveThreshold(changed_pixels)
    /\ prev_frame_gray # curr_frame_gray

C10_DistinctImageNames ==
    /\ \A i, j \in 1..Len(scenes) : i # j => scenes[i].img.name # scenes[j].img.name
    /\ Cardinality(files) = Len(scenes)

\* two boundaries within the same two seconds of video, after the first frame
C10_Witness ==
    /\ pc = "process_vtt" /\ Len(scenes) = 3
    /\ scenes[2].img.name = <<0, 0, 0, 1>>
    /\ scenes[3].img.name = <<0, 0, 0, 2>>
====
